---- MODULE Spec2Model ----
(***************************************************************************)
(* Verification model of the absence-seizure feature pipeline:             *)
(*   feature_extraction.py  feature_extraction and its five extractors     *)
(*   load_edf.py            load_annotations                               *)
(*   generate_features.py   split_data, split_annotations, _eventList2Mask *)
(*   main_features.py       the per-patient loop                           *)
(*                                                                         *)
(* Numbers.  Samples and filter taps are integers, so sums, products,      *)
(* squares and convolutions are exact.  A quotient is kept as a reduced    *)
(* fraction, a fractional power, a logarithm and a square root as a term   *)
(* naming the operation and its exact argument; nan and inf are terms too. *)
(* Library transforms whose coefficients are irrational (the db4 wavelet   *)
(* decomposition, the Hilbert transform) are terms naming the transform    *)
(* and its input.  The two FIR kernels that firwin designs are drawn, once *)
(* per behaviour, from the symmetric integer kernels of a bounded length.  *)
(***************************************************************************)
EXTENDS Integers, Sequences, FiniteSets

VARIABLES firwin, fe, la, sd, sa, mf

vars == <<firwin, fe, la, sd, sa, mf>>

(***************************************************************************)
(* Bounds of the model.                                                    *)
(***************************************************************************)
MaxEpochLen == 2
MaxTaps == 2
MaxScale == 3
MaxAnnotations == 3
MaxSeconds == 5
MaxChannels == 2

Samples == {-1, 0, 1}
TapValues == {-1, 1, 2}

(***************************************************************************)
(* Arithmetic helpers.                                                     *)
(***************************************************************************)
Abs(x) == IF x < 0 THEN -x ELSE x

Min(a, b) == IF a <= b THEN a ELSE b

Max(a, b) == IF a >= b THEN a ELSE b

RECURSIVE Gcd(_, _)
Gcd(a, b) == IF b = 0 THEN a ELSE Gcd(b, a % b)

RECURSIVE SeqSum(_)
SeqSum(s) == IF s = <<>> THEN 0 ELSE s[1] + SeqSum(Tail(s))

Square(x) == x * x

\* Python's int(): truncation of the non-negative rational num/den.
IntTrunc(num, den) == num \div den

(***************************************************************************)
(* Floating-point values as terms.                                         *)
(***************************************************************************)
NaN == [kind |-> "nan"]

Inf == [kind |-> "inf"]

Num(n) == [kind |-> "int", v |-> n]

\* a / b on numpy floats: a warning instead of an error when b = 0.
Divide(a, b) ==
    IF b = 0
    THEN (IF a = 0 THEN NaN ELSE Inf)
    ELSE LET g == Gcd(Abs(a), Abs(b))
             s == IF b < 0 THEN -1 ELSE 1
         IN  [kind |-> "ratio", num |-> s * (a \div g), den |-> s * (b \div g)]

\* base ** (en/ed) on a numpy float, en/ed not an integer: nan below zero.
PowFrac(base, en, ed) ==
    IF base < 0 THEN NaN
    ELSE [kind |-> "pow", base |-> base, en |-> en, ed |-> ed]

\* np.sqrt of the rational num/den (den > 0): nan below zero.
Sqrt(q) ==
    IF q.kind # "ratio" THEN NaN
    ELSE IF q.num < 0 THEN NaN
    ELSE [kind |-> "sqrt", num |-> q.num, den |-> q.den]

IsFinite(x) == x.kind \notin {"nan", "inf"}

\* x - y for two float terms; equal finite operands cancel exactly.
RealSub(x, y) ==
    IF ~IsFinite(x) \/ ~IsFinite(y) THEN NaN
    ELSE IF x = y THEN Num(0)
    ELSE [kind |-> "sub", x |-> x, y |-> y]

\* np.var of a single value x: mean(|x - mean(x)|^2) over one element.
\* Faulty variant: the mean of x^2, the deviation taken from zero.
MutNpVarScalarAboutZero(x) ==
    IF x.kind = "sqrt" THEN Num(x.num) ELSE NaN

NpVarScalar(x) ==
    LET mean == x
        dev == RealSub(x, mean)
    IN  IF dev.kind = "int" THEN Num(Square(dev.v)) ELSE NaN

\* x ** 0.25 for an integer-valued or nan float term.
PowQuarter(x) ==
    IF x.kind # "int" THEN NaN
    ELSE IF x.v = 0 THEN Num(0)
    ELSE PowFrac(x.v, 1, 4)

(***************************************************************************)
(* numpy array operations.                                                 *)
(***************************************************************************)
\* np.convolve(a, v), mode 'full': length Len(a) + Len(v) - 1.
Convolve(a, v) ==
    [n \in 1..(Len(a) + Len(v) - 1) |->
        SeqSum([k \in 1..Len(a) |->
            IF n - k + 1 \in 1..Len(v) THEN a[k] * v[n - k + 1] ELSE 0])]

Reverse(s) == [n \in 1..Len(s) |-> s[Len(s) + 1 - n]]

\* np.correlate(a, v), mode 'valid', for Len(a) >= Len(v):
\* c[k] = sum_n a[n+k] * v[n], one value per full overlap.
CorrelateLong(a, v) ==
    [k \in 1..(Len(a) - Len(v) + 1) |->
        SeqSum([n \in 1..Len(v) |-> a[n + k - 1] * v[n]])]

\* np.correlate(a, v): the shorter argument slides over the longer one, and
\* the lags are reversed when the arguments were swapped.
Correlate(a, v) ==
    IF Len(a) >= Len(v) THEN CorrelateLong(a, v)
    ELSE Reverse(CorrelateLong(v, a))

\* np.outer(u, v): Len(u) rows, Len(v) columns.
Outer(u, v) == [r \in 1..Len(u) |-> [c \in 1..Len(v) |-> u[r] * v[c]]]

\* np.eye(n)
Eye(n) == [r \in 1..n |-> [c \in 1..n |-> IF r = c THEN 1 ELSE 0]]

IsSquare(m) == \A r \in 1..Len(m) : Len(m[r]) = Len(m)

\* m without row i and column j.
Minor(m, i, j) ==
    [r \in 1..(Len(m) - 1) |->
        [c \in 1..(Len(m) - 1) |->
            m[IF r < i THEN r ELSE r + 1][IF c < j THEN c ELSE c + 1]]]

Sign(n) == IF n % 2 = 0 THEN 1 ELSE -1

\* Determinant by fraction-free elimination with row pivoting, as the LU
\* factorisation behind np.linalg.inv proceeds: a column without a non-zero
\* pivot makes the matrix singular.  prev is the previous pivot.
RECURSIVE DetElim(_, _)
DetElim(m, prev) ==
    IF Len(m) = 0 THEN 1
    ELSE IF Len(m) = 1 THEN m[1][1]
    ELSE IF \A r \in 1..Len(m) : m[r][1] = 0 THEN 0
    ELSE LET p == CHOOSE r \in 1..Len(m) :
                     m[r][1] # 0 /\ \A q \in 1..(r - 1) : m[q][1] = 0
             \* rows 1 and p exchanged
             sw == [r \in 1..Len(m) |->
                       IF r = 1 THEN m[p] ELSE IF r = p THEN m[1] ELSE m[r]]
             rest == [r \in 1..(Len(m) - 1) |->
                        [c \in 1..(Len(m) - 1) |->
                            (sw[r + 1][c + 1] * sw[1][1]
                               - sw[r + 1][1] * sw[1][c + 1]) \div prev]]
         IN  (IF p = 1 THEN 1 ELSE -1) * DetElim(rest, sw[1][1])

Det(m) == DetElim(m, 1)

\* Adjugate: inverse = Adjugate / Det.
Adjugate(m) ==
    [r \in 1..Len(m) |->
        [c \in 1..Len(m) |-> Sign(r + c) * Det(Minor(m, c, r))]]

\* np.linalg.inv(m): LinAlgError for a matrix that is not square or is
\* singular; otherwise the exact inverse, kept as (adjugate, determinant).
LinalgInv(m) ==
    IF ~IsSquare(m) \/ Det(m) = 0
    THEN [raised |-> TRUE, num |-> <<>>, den |-> 1]
    ELSE [raised |-> FALSE, num |-> Adjugate(m), den |-> Det(m)]

\* delta . m . delta for an integer matrix m.
QuadForm(delta, m) ==
    SeqSum([r \in 1..Len(delta) |->
        delta[r] * SeqSum([c \in 1..Len(delta) |-> m[r][c] * delta[c]])])

\* scipy distance.mahalanobis(u, v, VI) = sqrt((u-v) VI (u-v)^T), VI = num/den.
Mahalanobis(u, v, vi) ==
    LET delta == [n \in 1..Len(u) |-> u[n] - v[n]]
    IN  Sqrt(Divide(QuadForm(delta, vi.num), vi.den))

(***************************************************************************)
(* feature_extraction.py                                                   *)
(***************************************************************************)
WaveletLevels == 5

\* signal.firwin(numtaps, band, fs=128) designs a linear-phase (symmetric)
\* kernel; the model draws it from the symmetric integer kernels.
SymmetricKernels(n) ==
    {h \in [1..n -> TapValues] : \A t \in 1..n : h[t] = h[n + 1 - t]}

Epochs(n) == [1..n -> Samples]

\* pywt.wavedec(data, 'db4', level): level + 1 coefficient sets, the final
\* approximation first, then the details from the coarsest to the finest.
Wavedec(data, level) ==
    [k \in 1..(level + 1) |->
        [coef |-> IF k = 1 THEN "cA" ELSE "cD",
         level |-> IF k = 1 THEN level ELSE level + 2 - k,
         of |-> data]]

\* np.log(np.sum(np.abs(x))) of one coefficient set.
LogAbsSum(x) == [kind |-> "log_abs_sum", x |-> x]

\* del s[idx] with Python's 0-based idx.
DelAt(s, idx) ==
    [n \in 1..(Len(s) - 1) |-> IF n <= idx THEN s[n] ELSE s[n + 1]]

\* Faulty variant: del wavelet_feat[2].
MutExtractLogSumWaveletsDropThird(data) ==
    LET coefficients == Wavedec(data, WaveletLevels)
        wavelet_feat == [n \in 1..(Len(coefficients) - 1) |->
                            LogAbsSum(coefficients[n + 1])]
    IN  DelAt(wavelet_feat, 2)

ExtractLogSumWavelets(data) ==
    LET coefficients == Wavedec(data, WaveletLevels)
        \* coefficients[1:]
        wavelet_feat == [n \in 1..(Len(coefficients) - 1) |->
                            LogAbsSum(coefficients[n + 1])]
    IN  DelAt(wavelet_feat, 1)

\* Faulty variant: the sum of absolute samples as the power.
MutExtractPowerAbs(data_bp1_30, data_bp3_12) ==
    LET power1_30 == SeqSum([n \in 1..Len(data_bp1_30) |-> Abs(data_bp1_30[n])])
        power3_12 == SeqSum([n \in 1..Len(data_bp3_12) |-> Abs(data_bp3_12[n])])
    IN  <<PowFrac(power1_30, 1, 10), Divide(power3_12, power1_30)>>

ExtractPower(data_bp1_30, data_bp3_12) ==
    LET power1_30 == SeqSum([n \in 1..Len(data_bp1_30) |-> Square(data_bp1_30[n])])
        power3_12 == SeqSum([n \in 1..Len(data_bp3_12) |-> Square(data_bp3_12[n])])
    IN  <<PowFrac(power1_30, 1, 10), Divide(power3_12, power1_30)>>

\* Faulty variant: the first lag of a 'full' correlation.
MutExtractCorrelateLastLag(data, data1, data_bp1_30, data_bp3_12) ==
    <<PowFrac(data[1] * data1[Len(data1)], 1, 2),
      Num(Square(data_bp1_30[1] * data_bp3_12[Len(data_bp3_12)]))>>

ExtractCorrelate(data, data1, data_bp1_30, data_bp3_12) ==
    <<PowFrac(Correlate(data, data1)[1], 1, 2),
      Num(Square(Correlate(data_bp1_30, data_bp3_12)[1]))>>

\* np.var(signal.hilbert(data - np.mean(data))); the centred samples are
\* kept as Len(data) * data[n] - sum(data), over the denominator Len(data).
ExtractPhase(data) ==
    [kind |-> "var_hilbert",
     x |-> [n \in 1..Len(data) |-> Len(data) * data[n] - SeqSum(data)],
     den |-> Len(data)]

\* Faulty variant: LinAlgError is not caught.
MutExtractMahalanobisNoFallback(data_bp1_30, data_bp3_12) ==
    LET cov_mat == Outer(data_bp1_30, data_bp3_12)
        inv == LinalgInv(cov_mat)
    IN  IF inv.raised
        THEN [raised |-> TRUE, inv_failed |-> TRUE, cov_mat |-> cov_mat,
              inv_cov |-> inv, dist |-> NaN, value |-> NaN]
        ELSE [raised |-> FALSE, inv_failed |-> FALSE, cov_mat |-> cov_mat,
              inv_cov |-> inv,
              dist |-> Mahalanobis(data_bp1_30, data_bp3_12, inv),
              value |-> PowQuarter(NpVarScalar(
                            Mahalanobis(data_bp1_30, data_bp3_12, inv)))]

\* The record keeps the locals next to the returned value: raised is TRUE
\* when an exception leaves the function.
ExtractMahalanobis(data_bp1_30, data_bp3_12) ==
    LET cov_mat == Outer(data_bp1_30, data_bp3_12)
        inv == LinalgInv(cov_mat)
        inv_cov == IF inv.raised
                   THEN [raised |-> FALSE, num |-> Eye(Len(data_bp1_30)), den |-> 1]
                   ELSE inv
        dist == Mahalanobis(data_bp1_30, data_bp3_12, inv_cov)
    IN  [raised |-> FALSE, inv_failed |-> inv.raised, cov_mat |-> cov_mat,
         inv_cov |-> inv_cov, dist |-> dist,
         value |-> PowQuarter(NpVarScalar(dist))]

\* Faulty variant: the distance value before the phase value.
MutFeatureExtractionPhaseLast(data, data1) ==
    LET data_bp1_30 == Convolve(data, firwin.bp1_30)
        data_bp3_12 == Convolve(data, firwin.bp3_12)
        maha == ExtractMahalanobis(data_bp1_30, data_bp3_12)
    IN  [raised |-> maha.raised,
         data_bp1_30 |-> data_bp1_30,
         data_bp3_12 |-> data_bp3_12,
         maha |-> maha,
         features |->
            IF maha.raised THEN <<>>
            ELSE << ExtractLogSumWavelets(data)
                    \o ExtractPower(data_bp1_30, data_bp3_12)
                    \o ExtractCorrelate(data, data1, data_bp1_30, data_bp3_12)
                    \o <<maha.value>>
                    \o <<ExtractPhase(data)>> >>]

FeatureExtraction(data, data1) ==
    LET data_bp1_30 == Convolve(data, firwin.bp1_30)
        data_bp3_12 == Convolve(data, firwin.bp3_12)
        maha == ExtractMahalanobis(data_bp1_30, data_bp3_12)
    IN  [raised |-> maha.raised,
         data_bp1_30 |-> data_bp1_30,
         data_bp3_12 |-> data_bp3_12,
         maha |-> maha,
         features |->
            IF maha.raised THEN <<>>
            ELSE << ExtractLogSumWavelets(data)
                    \o ExtractPower(data_bp1_30, data_bp3_12)
                    \o ExtractCorrelate(data, data1, data_bp1_30, data_bp3_12)
                    \o <<ExtractPhase(data)>>
                    \o <<maha.value>> >>]

Scale(k, data) == [n \in 1..Len(data) |-> k * data[n]]

FeIdle == [pc |-> "idle"]

\* One call feature_extraction(data, data1) on a pair of equal-length epochs.
FeatureExtractionCall ==
    /\ fe.pc = "idle"
    /\ \E n \in 1..MaxEpochLen :
         \E data \in Epochs(n), data1 \in Epochs(n) :
            fe' = [pc |-> "returned", data |-> data, data1 |-> data1,
                   out |-> FeatureExtraction(data, data1)]
    /\ UNCHANGED <<firwin, la, sd, sa, mf>>

\* A second call on the same pair with the current epoch scaled by k; the
\* first call's result is kept next to the features the second returns.
ScaledCall ==
    /\ fe.pc = "returned"
    /\ \E k \in 2..MaxScale :
         fe' = [pc |-> "rescaled", data |-> fe.data, data1 |-> fe.data1,
                out |-> fe.out, k |-> k,
                scaled |-> FeatureExtraction(Scale(k, fe.data), fe.data1).features]
    /\ UNCHANGED <<firwin, la, sd, sa, mf>>

LaIdle == [pc |-> "idle"]
SdIdle == [pc |-> "idle"]
SaIdle == [pc |-> "idle"]
MfIdle == [pc |-> "idle"]

InitFeatures ==
    /\ \E n \in 1..MaxTaps :
         \E h1 \in SymmetricKernels(n), h3 \in SymmetricKernels(n) :
            firwin = [numtaps |-> n, bp1_30 |-> h1, bp3_12 |-> h3]
    /\ fe = FeIdle
    /\ la = LaIdle
    /\ sd = SdIdle
    /\ sa = SaIdle
    /\ mf = MfIdle

NextFeatures == FeatureExtractionCall \/ ScaledCall

SpecFeatures == InitFeatures /\ [][NextFeatures]_vars

(***************************************************************************)
(* load_edf.py: load_annotations                                           *)
(***************************************************************************)
\* Annotation texts the EDF reader may hand over, one per regular
\* expression family of the loop, and two that match none.
BeginTexts == {"begin_abs", "absence", "begin_aanval", "Note : absence start"}

InterictalBeginTexts == {"begin_inter", "inter-ictaal", "(inter"}

EndTexts == {"einde_abs", "einde_aanval", "Note : absence stop"}

InterictalEndTexts == {"einde_inter"}

AnnotationTexts == {"begin_abs", "einde_abs", "begin_inter", "einde_inter", "+note"}

\* The if-condition of the loop: one of the begin patterns matches.
IsBeginMarker(text, interictal) ==
    \/ text \in BeginTexts
    \/ (interictal /\ text \in InterictalBeginTexts)

\* The elif-condition of the loop: one of the end patterns matches.
IsEndMarker(text, interictal) ==
    \/ text \in EndTexts
    \/ (interictal /\ text \in InterictalEndTexts)

\* annotations[0][i]: the onset of the i-th annotation, in seconds.
Onset(i) == i

Last(s) == s[Len(s)]

Front(s) == SubSeq(s, 1, Len(s) - 1)

\* A begin marker: a pending event without its end is popped, then [onset]
\* is appended.
OnBeginMarker(events, onset) ==
    LET kept == IF Len(events) > 0 /\ Len(Last(events)) # 2
                THEN Front(events) ELSE events
    IN  Append(kept, <<onset>>)

\* An end marker: events[-1].append(onset); events[-1] must exist.
OnEndMarker(events, onset) ==
    [events EXCEPT ![Len(events)] = Append(@, onset)]

\* load_annotations(filename, interictal) starts with the annotations read.
LoadAnnotationsCall ==
    /\ la.pc = "idle"
    /\ \E n \in 0..MaxAnnotations :
         \E texts \in [1..n -> AnnotationTexts], interictal \in BOOLEAN :
            la' = [pc |-> "loop", texts |-> texts, interictal |-> interictal,
                   i |-> 1, events |-> <<>>]
    /\ UNCHANGED <<firwin, fe, sd, sa, mf>>

\* One iteration of the loop over annotations[2].
LoadAnnotationsStep ==
    /\ la.pc = "loop"
    /\ la.i <= Len(la.texts)
    /\ LET text == la.texts[la.i] IN
         IF IsBeginMarker(text, la.interictal)
         THEN la' = [la EXCEPT !.events = OnBeginMarker(la.events, Onset(la.i)),
                               !.i = la.i + 1]
         ELSE IF IsEndMarker(text, la.interictal)
         THEN IF Len(la.events) = 0
              THEN la' = [la EXCEPT !.pc = "IndexError"]
              ELSE la' = [la EXCEPT !.events = OnEndMarker(la.events, Onset(la.i)),
                                    !.i = la.i + 1]
         ELSE la' = [la EXCEPT !.i = la.i + 1]
    /\ UNCHANGED <<firwin, fe, sd, sa, mf>>

\* After the loop: events_length reads event[1] of every event, the summary
\* is logged and the events are returned.
LoadAnnotationsReturn ==
    /\ la.pc = "loop"
    /\ la.i > Len(la.texts)
    /\ IF \E e \in 1..Len(la.events) : Len(la.events[e]) < 2
       THEN la' = [la EXCEPT !.pc = "IndexError"]
       ELSE la' = [la EXCEPT !.pc = "returned"]
    /\ UNCHANGED <<firwin, fe, sd, sa, mf>>

InitAnnotations ==
    /\ firwin = [numtaps |-> 1, bp1_30 |-> <<1>>, bp3_12 |-> <<1>>]
    /\ fe = FeIdle
    /\ la = LaIdle
    /\ sd = SdIdle
    /\ sa = SaIdle
    /\ mf = MfIdle

NextAnnotations ==
    LoadAnnotationsCall \/ LoadAnnotationsStep \/ LoadAnnotationsReturn

SpecAnnotations == InitAnnotations /\ [][NextAnnotations]_vars

(***************************************************************************)
(* generate_features.py: split_data, split_annotations, _eventList2Mask    *)
(***************************************************************************)
FsSet == {1, 3, 128}

DurationSet == {1, 2}

\* Overlap percentages whose step is an exact binary fraction.
OverlapSet == {0, 25, 50, 75, 100}

PercentageSet == {0, 75, 100}

\* Channel lengths in samples: every length for a small fs, and for a large
\* fs the lengths at and next to the quarter-second boundaries.
LenSet(fs) ==
    IF fs < 8 THEN 0..(MaxSeconds * fs)
    ELSE {n \in 0..(MaxSeconds * fs) : n % (fs \div 4) \in {0, 1, (fs \div 4) - 1}}

\* Event lists in seconds, each row [start time, end time].
EventLists ==
    {<<>>} \cup {<< <<a, b>> >> : a \in {0, 1}, b \in {2, 3, MaxSeconds + 1}}

\* The number of list entries the process can hold before MemoryError.
MemCap == 4 * MaxSeconds + 2

\* i is kept in hundredths: i100 = 100 * i.
\* i += duration - overlap*duration/100
Advance(i100, duration, overlap) ==
    i100 + 100 * duration - overlap * duration

\* (i+duration)*fs <= length
WindowFits(i100, duration, fs, length) ==
    (i100 + 100 * duration) * fs <= 100 * length

\* The slice [int(i*fs):int((i+duration)*fs)] of a sequence of length samples.
Window(i100, duration, fs, length) ==
    [lo |-> Min(IntTrunc(i100 * fs, 100), length),
     hi |-> Min(IntTrunc((i100 + 100 * duration) * fs, 100), length)]

\* _eventList2Mask: the set of samples set to True, or IndexError when an
\* event reaches past totalLen.
EventList2Mask(events, totalLen, fs) ==
    LET touched == UNION {(events[e][1] * fs)..(events[e][2] * fs - 1) :
                              e \in 1..Len(events)}
    IN  [raised |-> \E k \in touched : k >= totalLen,
         mask |-> touched \cap (0..(totalLen - 1))]

\* np.sum(annotation_mask[lo:hi])
PozSamples(mask, w) == Cardinality({k \in w.lo..(w.hi - 1) : k \in mask})

\* poz_samples >= duration*fs*percentage/100
Label(poz_samples, duration, fs, percentage) ==
    100 * poz_samples >= duration * fs * percentage

SdStart(caller, nch, length, fs, duration, overlap) ==
    [pc |-> "loop", caller |-> caller, lens |-> [c \in 1..nch |-> length],
     fs |-> fs, duration |-> duration, overlap |-> overlap,
     ch |-> 1, i100 |-> 0, epochs |-> << <<>> >>]

\* split_data(data, fs, duration, overlap) called on its own.
SplitDataCall ==
    /\ sd.pc = "idle" /\ sa.pc = "idle" /\ mf.pc = "idle"
    /\ \E fs \in FsSet, duration \in DurationSet, overlap \in OverlapSet,
          nch \in 1..MaxChannels :
         \E length \in LenSet(fs) :
            sd' = SdStart("direct", nch, length, fs, duration, overlap)
    /\ UNCHANGED <<firwin, fe, la, sa, mf>>

\* One iteration of the while loop of split_data.
SplitDataIterate ==
    /\ sd.pc = "loop"
    /\ WindowFits(sd.i100, sd.duration, sd.fs, sd.lens[sd.ch])
    /\ IF Len(sd.epochs[sd.ch]) >= MemCap
       THEN sd' = [sd EXCEPT !.pc = "MemoryError"]
       ELSE sd' = [sd EXCEPT
                !.epochs[sd.ch] = Append(@, Window(sd.i100, sd.duration, sd.fs,
                                                   sd.lens[sd.ch])),
                !.i100 = Advance(sd.i100, sd.duration, sd.overlap)]
    /\ UNCHANGED <<firwin, fe, la, sa, mf>>

\* The while condition fails: the next channel starts, or epochs is returned.
SplitDataNextChannel ==
    /\ sd.pc = "loop"
    /\ ~WindowFits(sd.i100, sd.duration, sd.fs, sd.lens[sd.ch])
    /\ IF sd.ch < Len(sd.lens)
       THEN sd' = [sd EXCEPT !.ch = sd.ch + 1, !.i100 = 0,
                             !.epochs = Append(@, <<>>)]
       ELSE sd' = [sd EXCEPT !.pc = "done"]
    /\ UNCHANGED <<firwin, fe, la, sa, mf>>

SaStart(caller, events, dataLen, fs, percentage, duration, overlap) ==
    LET m == EventList2Mask(events, dataLen, fs)
    IN  [pc |-> IF m.raised THEN "IndexError" ELSE "loop",
         caller |-> caller, events |-> events, dataLen |-> dataLen,
         mask |-> m.mask, fs |-> fs, percentage |-> percentage,
         duration |-> duration, overlap |-> overlap,
         i100 |-> 0, epochs |-> <<>>, ranges |-> <<>>]

\* split_annotations(annotations, dataLen, fs, percentage, duration, overlap)
\* called on its own.
SplitAnnotationsCall ==
    /\ sd.pc = "idle" /\ sa.pc = "idle" /\ mf.pc = "idle"
    /\ \E fs \in FsSet, duration \in DurationSet, overlap \in OverlapSet,
          percentage \in PercentageSet, events \in EventLists :
         \E dataLen \in LenSet(fs) :
            sa' = SaStart("direct", events, dataLen, fs, percentage,
                          duration, overlap)
    /\ UNCHANGED <<firwin, fe, la, sd, mf>>

\* One iteration of the while loop of split_annotations; ranges records the
\* slice each label was computed from.
SplitAnnotationsIterate ==
    /\ sa.pc = "loop"
    /\ WindowFits(sa.i100, sa.duration, sa.fs, sa.dataLen)
    /\ IF Len(sa.epochs) >= MemCap
       THEN sa' = [sa EXCEPT !.pc = "MemoryError"]
       ELSE LET w == Window(sa.i100, sa.duration, sa.fs, sa.dataLen)
                poz_samples == PozSamples(sa.mask, w)
            IN  sa' = [sa EXCEPT
                    !.epochs = Append(@, Label(poz_samples, sa.duration, sa.fs,
                                               sa.percentage)),
                    !.ranges = Append(@, w),
                    !.i100 = Advance(sa.i100, sa.duration, sa.overlap)]
    /\ UNCHANGED <<firwin, fe, la, sd, mf>>

\* The while condition fails: epochs is returned.
SplitAnnotationsReturn ==
    /\ sa.pc = "loop"
    /\ ~WindowFits(sa.i100, sa.duration, sa.fs, sa.dataLen)
    /\ sa' = [sa EXCEPT !.pc = "done"]
    /\ UNCHANGED <<firwin, fe, la, sd, mf>>

(***************************************************************************)
(* main_features.py: the body of the loop over patients                    *)
(***************************************************************************)
MainFs == 128
MainDuration == 2
MainOverlap == 50
MainPercentage == 75

\* The channels are resampled to 128 Hz and the annotations are loaded; then
\* split_data(resampled_data, fs, duration=2, overlap=50) is entered.
MainStart ==
    /\ sd.pc = "idle" /\ sa.pc = "idle" /\ mf.pc = "idle"
    /\ \E nch \in 1..MaxChannels, length \in LenSet(MainFs),
          seizures \in EventLists :
         /\ mf' = [pc |-> "split_data", seizures |-> seizures,
                   dataLen |-> length, i |-> 0, feature_set |-> <<>>]
         /\ sd' = SdStart("main", nch, length, MainFs, MainDuration, MainOverlap)
    /\ UNCHANGED <<firwin, fe, la, sa>>

\* split_data has returned: split_annotations(seizures, len(resampled_data[0]),
\* fs, percentage=75, duration=2, overlap=50) is entered.
MainSplitAnnotations ==
    /\ mf.pc = "split_data"
    /\ sd.pc \in {"done", "MemoryError"}
    /\ IF sd.pc = "MemoryError"
       THEN /\ mf' = [mf EXCEPT !.pc = "MemoryError"]
            /\ sa' = sa
       ELSE /\ sa' = SaStart("main", mf.seizures, mf.dataLen, MainFs,
                             MainPercentage, MainDuration, MainOverlap)
            /\ mf' = [mf EXCEPT !.pc = IF sa'.pc = "IndexError" THEN "IndexError"
                                       ELSE "split_annotations"]
    /\ UNCHANGED <<firwin, fe, la, sd>>

\* split_annotations has returned: the loop over annotations[:-2] starts.
MainEnterLoop ==
    /\ mf.pc = "split_annotations"
    /\ sa.pc \in {"done", "MemoryError"}
    /\ mf' = [mf EXCEPT !.pc = IF sa.pc = "done" THEN "loop" ELSE "MemoryError"]
    /\ UNCHANGED <<firwin, fe, la, sd, sa>>

\* annotations[:-2]
AllButLastTwo(s) == SubSeq(s, 1, Max(Len(s) - 2, 0))

\* One iteration i of the loop: feature_extraction(channel[i], channel[i+1])
\* for every channel; an epoch index past the end of a channel is IndexError.
\* Faulty variant: channel[i+2] as the second epoch.
MutMainLoopNextNext(i) ==
    IF \E c \in 1..Len(sd.epochs) : i + 3 > Len(sd.epochs[c])
    THEN [raised |-> TRUE]
    ELSE [raised |-> FALSE,
          label |-> AllButLastTwo(sa.epochs)[i + 1],
          calls |-> [c \in 1..Len(sd.epochs) |->
                        [data |-> sd.epochs[c][i + 1],
                         data1 |-> sd.epochs[c][i + 3]]]]

MainLoopBody(i) ==
    IF \E c \in 1..Len(sd.epochs) : i + 2 > Len(sd.epochs[c])
    THEN [raised |-> TRUE]
    ELSE [raised |-> FALSE,
          label |-> AllButLastTwo(sa.epochs)[i + 1],
          calls |-> [c \in 1..Len(sd.epochs) |->
                        [data |-> sd.epochs[c][i + 1],
                         data1 |-> sd.epochs[c][i + 2]]]]

MainLoopStep ==
    /\ mf.pc = "loop"
    /\ mf.i < Len(AllButLastTwo(sa.epochs))
    /\ LET feature == MainLoopBody(mf.i) IN
         IF feature.raised
         THEN mf' = [mf EXCEPT !.pc = "IndexError"]
         ELSE mf' = [mf EXCEPT !.feature_set = Append(@, feature),
                               !.i = mf.i + 1]
    /\ UNCHANGED <<firwin, fe, la, sd, sa>>

\* The loop is over: feature_set is written.
MainDone ==
    /\ mf.pc = "loop"
    /\ mf.i >= Len(AllButLastTwo(sa.epochs))
    /\ mf' = [mf EXCEPT !.pc = "done"]
    /\ UNCHANGED <<firwin, fe, la, sd, sa>>

InitSplit ==
    /\ firwin = [numtaps |-> 1, bp1_30 |-> <<1>>, bp3_12 |-> <<1>>]
    /\ fe = FeIdle
    /\ la = LaIdle
    /\ sd = SdIdle
    /\ sa = SaIdle
    /\ mf = MfIdle

NextSplit ==
    \/ SplitDataCall
    \/ SplitDataIterate
    \/ SplitDataNextChannel
    \/ SplitAnnotationsCall
    \/ SplitAnnotationsIterate
    \/ SplitAnnotationsReturn
    \/ MainStart
    \/ MainSplitAnnotations
    \/ MainEnterLoop
    \/ MainLoopStep
    \/ MainDone

SpecSplit == InitSplit /\ [][NextSplit]_vars

(***************************************************************************)
(* Properties of feature_extraction (checked under SpecFeatures).          *)
(***************************************************************************)
FeCalled == fe.pc \in {"returned", "rescaled"}

Row == fe.out.features[1]

InnerProduct(a, b) == SeqSum([n \in 1..Len(a) |-> a[n] * b[n]])

SumOfSquares(a) == SeqSum([n \in 1..Len(a) |-> a[n] * a[n]])

C2_IdentityFallback ==
    FeCalled =>
        LET m == fe.out.maha IN
        /\ Len(fe.out.data_bp1_30) > 1 => (Det(m.cov_mat) = 0 /\ m.inv_failed)
        /\ m.inv_failed =>
              /\ m.inv_cov.num = Eye(Len(fe.out.data_bp1_30))
              /\ m.inv_cov.den = 1
              /\ ~fe.out.raised
              /\ Len(Row) = 10
              /\ Row[10] = m.value
              /\ m.value.kind \in {"int", "nan"}

C2_Witness ==
    /\ fe.pc = "returned"
    /\ fe.out.maha.inv_failed
    /\ Len(fe.out.data_bp1_30) > 1
    /\ \E n \in 1..Len(fe.out.data_bp1_30) :
          fe.out.data_bp1_30[n] # 0 /\ fe.out.data_bp3_12[n] # 0
    /\ Len(Row) = 10

\* C3: whenever the Mahalanobis distance is a finite number the tenth
\* feature is 0, with or without the identity fallback.
C3_DistanceFeatureIsZero ==
    FeCalled =>
        (IsFinite(fe.out.maha.dist) => Row[10] = Num(0))

C3_Witness ==
    /\ fe.pc = "returned"
    /\ ~fe.out.maha.inv_failed
    /\ fe.out.maha.dist.kind = "sqrt"
    /\ fe.out.maha.dist.num > 0
    /\ Row[10] = Num(0)

C5_CorrelationFeatures ==
    FeCalled =>
        /\ Len(Correlate(fe.data, fe.data1)) = 1
        /\ Row[7] = PowFrac(InnerProduct(fe.data, fe.data1), 1, 2)
        /\ fe.data1 = fe.data =>
              Row[7] = [kind |-> "pow", base |-> SumOfSquares(fe.data),
                        en |-> 1, ed |-> 2]
        /\ Row[8] = Num(Square(InnerProduct(fe.out.data_bp1_30,
                                            fe.out.data_bp3_12)))

C5_Witness ==
    /\ fe.pc = "returned"
    /\ fe.data1 = fe.data
    /\ Len(fe.data) = MaxEpochLen
    /\ Row[7].kind = "pow" /\ Row[7].base = MaxEpochLen
    /\ Row[8].v > 0

\* C7: with the current epoch scaled by k > 0 and a non-zero [1-30 Hz]
\* power, the power ratio is unchanged and the [1-30 Hz] power is k^2 times
\* the power of the unscaled epoch.
C7_PowerRatioScaleFree ==
    (fe.pc = "rescaled" /\ Row[5].base # 0) =>
        LET scaledRow == fe.scaled[1] IN
        /\ scaledRow[6] = Row[6]
        /\ scaledRow[5].base = fe.k * fe.k * Row[5].base

C7_Witness ==
    /\ fe.pc = "rescaled"
    /\ fe.k = MaxScale
    /\ Row[5].base # 0
    /\ Row[6].kind = "ratio" /\ Row[6].num # Row[6].den /\ Row[6].num # 0
    /\ fe.scaled[1][5].base # Row[5].base

(***************************************************************************)
(* Properties of load_annotations (checked under SpecAnnotations).         *)
(***************************************************************************)
IsMarker(i) ==
    IsBeginMarker(la.texts[i], la.interictal) \/ IsEndMarker(la.texts[i], la.interictal)

\* C8: every returned event has exactly two columns, the onset of a begin
\* marker and the onset of the first end marker after it, and a begin marker
\* followed by another begin marker before any end marker starts no event.
C8_EventsHaveTwoColumns ==
    la.pc = "returned" =>
        /\ \A e \in 1..Len(la.events) :
              LET event == la.events[e] IN
              /\ Len(event) = 2
              /\ IsBeginMarker(la.texts[event[1]], la.interictal)
              /\ IsEndMarker(la.texts[event[2]], la.interictal)
              /\ event[1] < event[2]
              /\ \A i \in (event[1] + 1)..(event[2] - 1) :
                    ~IsEndMarker(la.texts[i], la.interictal)
        /\ \A i \in 1..Len(la.texts), j \in 1..Len(la.texts) :
              ( /\ i < j
                /\ IsBeginMarker(la.texts[i], la.interictal)
                /\ IsBeginMarker(la.texts[j], la.interictal)
                /\ \A m \in (i + 1)..(j - 1) : ~IsMarker(m) )
              => \A e \in 1..Len(la.events) : la.events[e][1] # Onset(i)

(***************************************************************************)
(* Properties of the segmentation and of the pipeline (SpecSplit).         *)
(***************************************************************************)
\* C9: split_data and split_annotations return for every overlap in
\* [0, 100]: every iteration of their while loops that stays in the loop
\* moves the start position i forward, so the loop condition fails after
\* finitely many iterations.
C9_EveryIterationAdvances ==
    [][ /\ (sd.pc = "loop" /\ sd'.pc = "loop" /\ sd'.ch = sd.ch /\ sd' # sd)
            => sd'.i100 > sd.i100
        /\ (sa.pc = "loop" /\ sa'.pc = "loop" /\ sa' # sa)
            => sa'.i100 > sa.i100 ]_vars

InMain == mf.pc # "idle"

\* C10: in the pipeline every channel gets as many epochs as there are
\* labels, every epoch has 256 samples, no epoch index is out of range, and
\* call i of every channel gets the epoch cut from the samples label i was
\* computed from, with the next epoch of that channel.
C10_PipelineAlignment ==
    InMain =>
        /\ \A c \in 1..Len(sd.epochs) : \A n \in 1..Len(sd.epochs[c]) :
              sd.epochs[c][n].hi - sd.epochs[c][n].lo = 256
        /\ mf.pc \in {"loop", "done"} =>
              \A c \in 1..Len(sd.epochs) : Len(sd.epochs[c]) = Len(sa.epochs)
        /\ ~(mf.pc = "IndexError" /\ sa.pc = "done")
        /\ \A n \in 1..Len(mf.feature_set) :
              LET feature == mf.feature_set[n] IN
              /\ feature.label = sa.epochs[n]
              /\ Len(feature.calls) = Len(sd.lens)
              /\ \A c \in 1..Len(feature.calls) :
                    /\ feature.calls[c].data = sa.ranges[n]
                    /\ feature.calls[c].data = sd.epochs[c][n]
                    /\ feature.calls[c].data1 = sd.epochs[c][n + 1]
                    /\ feature.calls[c].data1.lo = feature.calls[c].data.lo + 128
        /\ mf.pc = "done" => Len(mf.feature_set) = Max(Len(sa.epochs) - 2, 0)

C10_Witness ==
    /\ mf.pc = "done"
    /\ Len(mf.feature_set) >= 2
    /\ mf.feature_set[1].label
    /\ ~mf.feature_set[2].label
    /\ Len(sd.lens) = MaxChannels

====
